---- MODULE Spec2Model ----
(***************************************************************************)
(* Model of the file ingestion of node-elm-review (getProjectFiles and    *)
(* its helpers readFile, readAst, findFiles, getSourceDirectories), with  *)
(* the in-memory cache, the durable AST cache and the parser worker pool  *)
(* it drives.                                                             *)
(***************************************************************************)
EXTENDS Integers, Sequences, FiniteSets, TLC

\* ------------------------------------------------------------------ bounds
MaxPasses == 2
MaxMtime == 2
MaxEdits == 1

\* ------------------------------------------------------------ the file tree
NULL == "null"
NoTime == 0

FileA == <<"src", "A.elm">>
FileB == <<"src", "B.elm">>
FileC == <<"tests", "C.elm">>
FileX == <<"vendor", "elm-stuff", "X.elm">>
FileY == <<"vendor", "elm-stuff-backup", "Y.elm">>
FileZ == <<"vendor", "node_modules", "Z.elm">>
\* glob returns its matches sorted
FileOrder == <<FileA, FileB, FileC, FileX, FileY, FileZ>>
AllFiles == {FileOrder[i] : i \in 1..Len(FileOrder)}

Contents == {"v1", "v2", "bad"}

RootSrc == <<"src">>
RootTests == <<"tests">>
RootEmpty == <<"empty">>
RootMissing == <<"missing">>
RootVendor == <<"vendor">>

\* RootEmpty exists and holds no Elm file; RootMissing does not exist

ignore == {"elm-stuff", "node_modules"}

\* --------------------------------------------------------------- the state
VARIABLES
  watch,                \* options.watch
  directoriesToAnalyze, \* options.directoriesToAnalyze
  elmJsonFile,          \* elm.json on disk: "package", "application", "missing", "malformed"
  content,              \* bytes of every source file
  mtime,                \* modification time of every source file
  unreadable,           \* source files whose fs.readFile fails
  memory,               \* appState's in-memory file cache: at most one record per path
  durable,              \* the on-disk AST cache: records [hash, ast]
  poolPrepared,         \* elmParser's worker pool exists
  pc,                   \* position of getProjectFiles
  passNo,               \* number of calls of getProjectFiles so far
  elmJsonRead,          \* readElmJson of the current pass: "none", "pending", "ok"
  readmeRead,           \* getReadme of the current pass: "none", "pending", "done"
  scans,                \* findFiles promises of the current pass, in sourcesDirectories order
  elmFilesToRead,       \* the deduplicated paths of the current pass
  tasks,                \* the readFile promises in flight or settled
  result,               \* elmFiles returned by the current pass
  error,                \* the error the current pass was rejected with
  hist,                 \* what the current pass did: calls and requests it issued
  edits,                \* number of file-system changes made so far
  dirty,                \* a file changed since the previous pass started
  prev                  \* outcome of the previous pass

vars == <<watch, directoriesToAnalyze, elmJsonFile, content, mtime, unreadable,
          memory, durable, poolPrepared, pc, passNo, elmJsonRead, readmeRead,
          scans, elmFilesToRead, tasks, result, error, hist, edits, dirty, prev>>

optionVars == <<watch, directoriesToAnalyze, elmJsonFile>>
diskVars == <<content, mtime, unreadable>>

\* ---------------------------------------------------------- pure functions

\* elmParser.parse resolves to the AST of a valid source and to null otherwise
Parse(source) == IF source = "bad" THEN NULL ELSE "ast(" \o source \o ")"

\* the durable cache names an entry by the hash of the source
Hash(source) ==
  CASE source = "v1" -> 11
    [] source = "v2" -> 22
    [] source = "bad" -> 33

IsPrefix(p, q) == Len(p) <= Len(q) /\ SubSeq(q, 1, Len(p)) = p

\* the name of a directory as the pieces a substring test would see
Pieces(segment) ==
  IF segment = "elm-stuff-backup" THEN <<"elm-stuff", "-backup">> ELSE <<segment>>

\* a pattern that matches every name it is a part of
SegmentContains(pattern, segment) ==
  \E i \in 1..Len(Pieces(segment)) : Pieces(segment)[i] = pattern

\* line 105: in '**/elm-stuff/**' the name stands for one whole path segment
SegmentMatches(pattern, segment) == segment = pattern

\* a path under a directory named in `ignore` is not matched
Ignored(f) ==
  \E i \in 1..(Len(f) - 1) : \E pattern \in ignore : SegmentMatches(pattern, f[i])

\* fs.existsSync and fs.lstatSync(...).isDirectory() (lines 116, 120)
IsDirectory(p) ==
  \/ p = RootEmpty
  \/ \E f \in AllFiles : Len(f) > Len(p) /\ IsPrefix(p, f)

Exists(p) == p \in AllFiles \/ IsDirectory(p)

\* lines 135-141: candidates with a segment named elm-stuff are dropped
resolveFilePath(candidates) ==
  SelectSeq(candidates, LAMBDA f : \A i \in 1..Len(f) : f[i] # "elm-stuff")

\* lines 115-133
getFiles(filename) ==
  IF ~Exists(filename) THEN <<>>
  ELSE IF IsDirectory(filename)
  THEN resolveFilePath(
         SelectSeq(FileOrder,
                   LAMBDA f : Len(f) > Len(filename) /\ IsPrefix(filename, f)
                              /\ ~Ignored(f)))
  ELSE <<filename>>

\* glob(path_, {nodir: true}): the path itself when it is a file
GlobSelf(path_) ==
  SelectSeq(FileOrder, LAMBDA f : f = path_ /\ ~Ignored(f))

\* glob(path_ + '/**/*.elm'): the Elm files below the directory
GlobBelow(path_) ==
  SelectSeq(FileOrder,
            LAMBDA f : Len(f) > Len(path_) /\ IsPrefix(path_, f) /\ ~Ignored(f))

findFiles(directory) ==
  [directory |-> directory, files |-> GlobSelf(directory) \o GlobBelow(directory)]

\* elm.json's "source-directories" when the project is an application
SourceDirectories == <<RootEmpty, RootMissing>>

\* lines 289-311 without the tests directory
getSourceDirectoriesNoTests(dirs, elmJson) ==
  IF Len(dirs) # 0 THEN dirs
  ELSE IF elmJson = "package" THEN <<RootSrc>>
  ELSE SourceDirectories

getSourceDirectories(dirs, elmJson) ==
  IF Len(dirs) # 0 THEN dirs
  ELSE IF elmJson = "package" THEN <<RootSrc, RootTests>>
  ELSE SourceDirectories \o <<RootTests>>

EmptyDirectories(filesInDirectories) ==
  SelectSeq(filesInDirectories, LAMBDA d : Len(d.files) = 0)

\* lines 164-167 without the test of directoriesToAnalyze
NoFilesFoundAnyEmpty(dirs, emptyDirectories) == Len(emptyDirectories) # 0

\* lines 164-167 failing only when every directory is empty
NoFilesFoundWhenAllEmpty(dirs, emptyDirectories) ==
  Len(dirs) # 0 /\ Len(emptyDirectories) = Len(dirs)

\* lines 164-167
NoFilesFound(dirs, emptyDirectories) ==
  Len(dirs) # 0 /\ Len(emptyDirectories) # 0

\* the array kept as it is, duplicates included
NoDedup(array) == array

RECURSIVE Dedup(_)
\* [...new Set(array)]: first occurrences, in insertion order
Dedup(array) ==
  IF array = <<>> THEN <<>>
  ELSE LET front == Dedup(SubSeq(array, 1, Len(array) - 1))
           last == array[Len(array)]
       IN IF \E i \in 1..Len(front) : front[i] = last
          THEN front ELSE Append(front, last)

FilesOf(d) == d.files

RECURSIVE flatMapFiles(_)
\* flatMap(filesInDirectories, (directory) => directory.files)
flatMapFiles(array) ==
  IF array = <<>> THEN <<>> ELSE FilesOf(Head(array)) \o flatMapFiles(Tail(array))

ElmFilesToRead(filesInDirectories) == Dedup(flatMapFiles(filesInDirectories))

getFileFromMemoryCache(path) == {e \in memory : e.path = path}

\* line 244 with a comparison that never holds
MemoryHitNever(cachedFile, lastUpdatedTime) == FALSE

\* the comparison of line 244 made strict
MemoryHitStrict(cachedFile, lastUpdatedTime) ==
  \E e \in cachedFile : e.lastUpdatedTime > lastUpdatedTime

\* line 244: the stored entry is at least as recent as the file
MemoryHit(cachedFile, lastUpdatedTime) ==
  \E e \in cachedFile : e.lastUpdatedTime >= lastUpdatedTime

\* lines 254-255 without the comparison of the sources
CachedAstAnySource(cachedFile, source) ==
  IF cachedFile # {} THEN (CHOOSE e \in cachedFile : TRUE).ast ELSE NULL

\* lines 254-255
CachedAst(cachedFile, source) ==
  IF \E e \in cachedFile : e.source = source
  THEN (CHOOSE e \in cachedFile : e.source = source).ast
  ELSE NULL

readAstFromFSCache(source) ==
  IF \E d \in durable : d.hash = Hash(source)
  THEN (CHOOSE d \in durable : d.hash = Hash(source)).ast
  ELSE NULL

\* line 272 with the test inverted, and without the test
ShouldCacheInverted(ast) == ast = NULL

ShouldCacheAlways(ast) == TRUE

\* line 272
ShouldCache(ast) == ast # NULL

cacheFile(source, ast) ==
  {d \in durable : d.hash # Hash(source)} \cup {[hash |-> Hash(source), ast |-> ast]}

\* lines 257-262 built over the stored entry: {...cachedFile, lastUpdatedTime, ast}
FileRecordOverEntry(t) ==
  [path |-> t.path,
   source |-> IF t.cachedFile # {} THEN (CHOOSE e \in t.cachedFile : TRUE).source
              ELSE t.source,
   lastUpdatedTime |-> t.lastUpdatedTime, ast |-> t.ast]

\* lines 257-262 (and line 245, where the fields are those of the stored entry)
FileRecord(t) ==
  [path |-> t.path, source |-> t.source,
   lastUpdatedTime |-> t.lastUpdatedTime, ast |-> t.ast]

NoHist ==
  [prepare |-> 0, terminate |-> 0, parse |-> [c \in Contents |-> 0],
   reads |-> {}, readmeRead |-> FALSE, scansStarted |-> FALSE,
   parseBad |-> FALSE, terminateEarly |-> FALSE,
   readFailed |-> <<>>, order |-> <<>>, clean |-> FALSE]

\* -------------------------------------------------------------------- Init
\* the command lines, manifests and file permissions explored:
\* [directoriesToAnalyze, elm.json, the files that cannot be read]
Configurations ==
  { <<dirs, "package", {}>> : dirs \in { <<>>, <<RootSrc, RootEmpty>>, <<RootSrc, FileA>>,
                                        <<RootMissing, RootTests, RootEmpty>>,
                                        <<RootTests, RootMissing>>, <<RootVendor>> } }
    \cup { <<(<<>>), kind, {}>> : kind \in {"application", "missing", "malformed"} }
    \cup { <<(<<FileA, FileC>>), "package", {FileA}>> }

\* the files the environment changes between passes
EditableFiles == {FileA, FileC}

\* the files whose read permission the environment changes
ProtectedFiles == {FileA}

Init ==
  /\ watch \in BOOLEAN
  /\ \E cfg \in Configurations :
       /\ directoriesToAnalyze = cfg[1]
       /\ elmJsonFile = cfg[2]
       /\ unreadable = cfg[3]
  /\ content = [f \in AllFiles |-> IF f = FileC THEN "bad" ELSE "v1"]
  /\ mtime = [f \in AllFiles |-> 1]
  /\ memory = {}
  /\ durable = {}
  /\ poolPrepared = FALSE
  /\ pc = "idle"
  /\ passNo = 0
  /\ elmJsonRead = "none"
  /\ readmeRead = "none"
  /\ scans = <<>>
  /\ elmFilesToRead = <<>>
  /\ tasks = {}
  /\ result = <<>>
  /\ error = [title |-> NULL, paths |-> <<>>]
  /\ hist = NoHist
  /\ edits = 0
  /\ dirty = FALSE
  /\ prev = [ok |-> FALSE, elmFiles |-> <<>>]

\* ------------------------------------------------ getProjectFiles, lines 143-157
Fail(title, paths) ==
  /\ pc' = "failed"
  /\ error' = [title |-> title, paths |-> paths]
  /\ result' = <<>>

\* a call of getProjectFiles: readElmJson and getReadme are started together
StartPass ==
  /\ pc = "idle"
  /\ passNo < MaxPasses
  /\ passNo' = passNo + 1
  /\ pc' = "manifest"
  /\ elmJsonRead' = "pending"
  /\ readmeRead' = "pending"
  /\ scans' = <<>>
  /\ elmFilesToRead' = <<>>
  /\ result' = <<>>
  /\ error' = [title |-> NULL, paths |-> <<>>]
  /\ hist' = [NoHist EXCEPT !.readmeRead = TRUE, !.clean = prev.ok /\ ~dirty]
  /\ dirty' = FALSE
  /\ UNCHANGED <<optionVars, diskVars, memory, durable, poolPrepared, tasks,
                 edits, prev>>

\* lines 152-157 with a manifest that is not JSON taken for a package's
AfterManifestLenient ==
  /\ scans' = [i \in 1..2 |->
                 [directory |-> <<RootSrc, RootTests>>[i], files |-> <<>>, done |-> FALSE]]
  /\ hist' = [hist EXCEPT !.scansStarted = TRUE]
  /\ pc' = "scanning"
  /\ UNCHANGED <<result, error>>

\* lines 152-157: JSON.parse, getSourceDirectories, one findFiles per directory
AfterManifest ==
  IF elmJsonFile = "malformed"
  THEN /\ Fail("SyntaxError", <<>>)
       /\ UNCHANGED <<scans, hist>>
  ELSE /\ scans' = [i \in 1..Len(getSourceDirectories(directoriesToAnalyze, elmJsonFile)) |->
                      [directory |-> getSourceDirectories(directoriesToAnalyze, elmJsonFile)[i],
                       files |-> <<>>, done |-> FALSE]]
       /\ hist' = [hist EXCEPT !.scansStarted = TRUE]
       /\ pc' = "scanning"
       /\ UNCHANGED <<result, error>>

\* readElmJson settles (lines 204-229)
ReadElmJsonDone ==
  /\ pc = "manifest"
  /\ elmJsonRead = "pending"
  /\ IF elmJsonFile = "missing"
     THEN /\ elmJsonRead' = "none"
          /\ Fail("ELM.JSON NOT FOUND", <<>>)
          /\ UNCHANGED <<scans, hist>>
     ELSE /\ elmJsonRead' = "ok"
          /\ IF readmeRead = "done"
             THEN AfterManifest
             ELSE UNCHANGED <<pc, scans, hist, result, error>>
  /\ UNCHANGED <<optionVars, diskVars, memory, durable, poolPrepared, passNo,
                 readmeRead, elmFilesToRead, tasks, edits, dirty, prev>>

\* getReadme settles (lines 280-287); it never rejects
GetReadmeDone ==
  /\ readmeRead = "pending"
  /\ readmeRead' = "done"
  /\ IF pc = "manifest" /\ elmJsonRead = "ok"
     THEN AfterManifest
     ELSE UNCHANGED <<pc, scans, hist, result, error>>
  /\ UNCHANGED <<optionVars, diskVars, memory, durable, poolPrepared, passNo,
                 elmJsonRead, elmFilesToRead, tasks, edits, dirty, prev>>

\* ------------------------------------------------ readFile, lines 231-263
NewTask(i, path) ==
  [pass |-> passNo, idx |-> i, path |-> path,
   pc |-> IF watch THEN "stat" ELSE "read",
   observed |-> NoTime, cachedFile |-> {}, source |-> "",
   lastUpdatedTime |-> NoTime, ast |-> NULL, verdict |-> "NONE",
   prepared |-> TRUE]

\* lines 159-189: all scans are in; the empty-directory decision, then the reads
AfterScans(filesInDirectories) ==
  IF NoFilesFound(directoriesToAnalyze, EmptyDirectories(filesInDirectories))
  THEN /\ Fail("NO FILES FOUND",
               [i \in 1..Len(EmptyDirectories(filesInDirectories)) |->
                  EmptyDirectories(filesInDirectories)[i].directory])
       /\ UNCHANGED <<poolPrepared, elmFilesToRead, tasks, hist>>
  ELSE \E paths \in {ElmFilesToRead(filesInDirectories)} :
          /\ elmFilesToRead' = paths
          /\ tasks' = tasks \cup {NewTask(i, paths[i]) : i \in 1..Len(paths)}
          /\ IF paths = <<>>
             THEN \* Promise.all([]) is fulfilled at once: prepare, then terminate
                  /\ pc' = "done"
                  /\ poolPrepared' = FALSE
                  /\ hist' = [hist EXCEPT !.prepare = @ + 1, !.terminate = @ + 1]
             ELSE /\ pc' = "reading"
                  /\ poolPrepared' = TRUE
                  /\ hist' = [hist EXCEPT
                                !.prepare = @ + 1,
                                !.reads = IF watch THEN @
                                          ELSE {paths[i] : i \in 1..Len(paths)}]
          /\ UNCHANGED <<result, error>>

\* one findFiles promise settles (lines 313-331)
FindFilesDone(i) ==
  /\ pc = "scanning"
  /\ i \in 1..Len(scans)
  /\ ~scans[i].done
  /\ \E found \in {findFiles(scans[i].directory)} :
       \E scans2 \in {[scans EXCEPT ![i] = [directory |-> found.directory,
                                            files |-> found.files, done |-> TRUE]]} :
         /\ scans' = scans2
         /\ IF \A j \in 1..Len(scans2) : scans2[j].done
            THEN AfterScans(scans2)
            ELSE UNCHANGED <<pc, result, error, poolPrepared, elmFilesToRead, tasks, hist>>
  /\ UNCHANGED <<optionVars, diskVars, memory, durable, passNo, elmJsonRead,
                 readmeRead, edits, dirty, prev>>

Finished(u) == u.pc \in {"done", "failed"}

\* t is a promise of the call of getProjectFiles that is running or just ended
OfPass(t) == t.pass = passNo /\ pc \in {"reading", "done", "failed"}

\* a combinator that is fulfilled by the first fulfilment
AnySettled(live) == \E u \in live : u.pc = "done"

\* a combinator that waits for a parse result from every promise
AllParsed(live) == \A u \in live : u.pc = "done" /\ u.verdict = "MISS"

\* Promise.all(elmFilesToRead.map(readFile)) is fulfilled when every promise is
AllSettled(live) == \A u \in live : u.pc = "done"

\* an array filled as the promises are fulfilled: `order` lists the positions
\* in elmFilesToRead of the fulfilled promises, in order of fulfilment
ElmFilesByCompletion(live, order) ==
  [k \in 1..Len(order) |-> FileRecord(CHOOSE u \in live : u.idx = order[k])]

\* lines 185-189: Promise.all fulfils with the values in the order of its input
ElmFiles(live, order) ==
  [i \in 1..Len(elmFilesToRead) |-> FileRecord(CHOOSE u \in live : u.idx = i)]

\* A readFile promise that outlives its rejected call: nothing awaits it any
\* more, so its call, its position in elmFilesToRead and the fields of the
\* record it would have returned no longer matter; what it still does depends
\* on its path, the entry it found and the source it read.
Leftover(u) ==
  [u EXCEPT !.pass = 0, !.idx = 0, !.observed = NoTime,
            !.lastUpdatedTime = NoTime, !.ast = NULL, !.verdict = "NONE"]

\* A readFile promise t moved to t2. Promise.all rejects with the first
\* rejection and is fulfilled by the last fulfilment; line 190 then terminates
\* the workers. The promises of a pass that was rejected keep running.
Settle(t, t2, hist2) ==
  LET tasks2 == (tasks \ {t}) \cup {t2}
      live2 == {u \in tasks2 : u.pass = passNo}
      hist3 == [hist2 EXCEPT !.order = IF t2.pc = "done" THEN Append(@, t2.idx) ELSE @]
  IN IF ~(t.pass = passNo /\ pc = "reading")
     THEN /\ tasks' = IF Finished(t2) THEN tasks \ {t}
                      ELSE IF t.pass = passNo THEN tasks2
                      ELSE (tasks \ {t}) \cup {Leftover(t2)}
          /\ hist' = hist2
          /\ UNCHANGED <<pc, result, error, poolPrepared>>
     ELSE IF t2.pc = "failed"
     THEN /\ Fail("UNEXPECTED ERROR WHEN READING THE FILE", <<t2.path>>)
          /\ tasks' = tasks2
          /\ hist' = hist3
          /\ UNCHANGED poolPrepared
     ELSE IF AllSettled(live2)
     THEN /\ pc' = "done"
          /\ result' = ElmFiles(live2, hist3.order)
          /\ poolPrepared' = FALSE
          /\ hist' = [hist3 EXCEPT
                        !.terminate = @ + 1,
                        !.terminateEarly = @ \/ \E u \in live2 : ~Finished(u)]
          /\ tasks' = tasks2
          /\ UNCHANGED error
     ELSE /\ tasks' = tasks2
          /\ hist' = hist3
          /\ UNCHANGED <<pc, result, error, poolPrepared>>

\* lines 235-246: fs.stat settles, the in-memory cache is consulted
StatDone(t) ==
  /\ t \in tasks
  /\ t.pc = "stat"
  /\ LET lastUpdatedTime == mtime[t.path]
         cachedFile == getFileFromMemoryCache(t.path)
         histS == hist
     IN IF MemoryHit(cachedFile, lastUpdatedTime)
        THEN LET e == CHOOSE e \in cachedFile : TRUE
             IN Settle(t, [t EXCEPT !.pc = "done", !.observed = lastUpdatedTime,
                                    !.cachedFile = cachedFile,
                                    !.path = e.path, !.source = e.source,
                                    !.lastUpdatedTime = e.lastUpdatedTime,
                                    !.ast = e.ast, !.verdict = "HIT_MTIME"],
                       histS)
        ELSE Settle(t, [t EXCEPT !.pc = "read", !.observed = lastUpdatedTime,
                                 !.lastUpdatedTime = lastUpdatedTime,
                                 !.cachedFile = cachedFile],
                    [histS EXCEPT !.reads = IF OfPass(t) THEN @ \cup {t.path} ELSE @])
  /\ UNCHANGED <<optionVars, diskVars, memory, durable, passNo, elmJsonRead,
                 readmeRead, scans, elmFilesToRead, edits, dirty, prev>>

\* lines 248-262 with a read failure swallowed instead of thrown
ReadDoneSkips(t) ==
  /\ t \in tasks
  /\ t.pc = "read"
  /\ IF t.path \in unreadable
     THEN Settle(t, [t EXCEPT !.pc = "done", !.verdict = "SKIPPED"],
                 [hist EXCEPT !.readFailed =
                    IF OfPass(t) THEN Append(@, t.path) ELSE @])
     ELSE LET source == content[t.path]
              cachedAst == CachedAst(t.cachedFile, source)
          IN IF cachedAst # NULL
             THEN Settle(t, [t EXCEPT !.pc = "done", !.source = source,
                                      !.ast = cachedAst, !.verdict = "HIT_CONTENT"],
                         hist)
             ELSE Settle(t, [t EXCEPT !.pc = "fscache", !.source = source], hist)
  /\ UNCHANGED <<optionVars, diskVars, memory, durable, passNo, elmJsonRead,
                 readmeRead, scans, elmFilesToRead, edits, dirty, prev>>

\* lines 248-262: fs.readFile settles
ReadDone(t) ==
  /\ t \in tasks
  /\ t.pc = "read"
  /\ IF t.path \in unreadable
     THEN Settle(t, [t EXCEPT !.pc = "failed"],
                 [hist EXCEPT !.readFailed =
                    IF OfPass(t) THEN Append(@, t.path) ELSE @])
     ELSE LET source == content[t.path]
              cachedAst == CachedAst(t.cachedFile, source)
          IN IF cachedAst # NULL
             THEN Settle(t, [t EXCEPT !.pc = "done", !.source = source,
                                      !.ast = cachedAst, !.verdict = "HIT_CONTENT"],
                         hist)
             ELSE Settle(t, [t EXCEPT !.pc = "fscache", !.source = source], hist)
  /\ UNCHANGED <<optionVars, diskVars, memory, durable, passNo, elmJsonRead,
                 readmeRead, scans, elmFilesToRead, edits, dirty, prev>>

\* lines 266-271: cache.readAstFromFSCache settles; a miss asks the workers
FSCacheDone(t) ==
  /\ t \in tasks
  /\ t.pc = "fscache"
  /\ LET cached == readAstFromFSCache(t.source)
     IN IF cached # NULL
        THEN Settle(t, [t EXCEPT !.pc = "done", !.ast = cached,
                                 !.verdict = "HIT_DURABLE"], hist)
        ELSE Settle(t, [t EXCEPT !.pc = "parse", !.verdict = "MISS",
                                 !.prepared = poolPrepared],
                    [hist EXCEPT
                       !.parse[t.source] = IF OfPass(t) THEN @ + 1 ELSE @,
                       !.parseBad = @ \/ (OfPass(t) /\ pc # "failed" /\
                                          (hist.prepare # 1 \/ hist.terminate # 0))])
  /\ UNCHANGED <<optionVars, diskVars, memory, durable, passNo, elmJsonRead,
                 readmeRead, scans, elmFilesToRead, edits, dirty, prev>>

\* lines 271-276 with a parse failure thrown instead of returned as null
ParseDoneRejects(t) ==
  /\ t \in tasks
  /\ t.pc = "parse"
  /\ LET ast == Parse(t.source)
     IN /\ durable' = IF ShouldCache(ast) THEN cacheFile(t.source, ast) ELSE durable
        /\ Settle(t, [t EXCEPT !.pc = IF ast = NULL THEN "failed" ELSE "done",
                               !.ast = ast], hist)
  /\ UNCHANGED <<optionVars, diskVars, memory, passNo, elmJsonRead,
                 readmeRead, scans, elmFilesToRead, edits, dirty, prev>>

\* lines 271-276: elmParser.parse settles; a successful parse is stored
ParseDone(t) ==
  /\ t \in tasks
  /\ t.pc = "parse"
  /\ LET ast == Parse(t.source)
     IN /\ durable' = IF ShouldCache(ast) THEN cacheFile(t.source, ast) ELSE durable
        /\ Settle(t, [t EXCEPT !.pc = "done", !.ast = ast], hist)
  /\ UNCHANGED <<optionVars, diskVars, memory, passNo, elmJsonRead,
                 readmeRead, scans, elmFilesToRead, edits, dirty, prev>>

\* ------------------------------------------------ the caller of getProjectFiles
\* appState.filesWereUpdated: in watch mode the returned records replace the
\* entries of their paths in the in-memory cache
filesWereUpdated(elmFiles) ==
  {e \in memory : \A i \in 1..Len(elmFiles) : elmFiles[i].path # e.path}
    \cup {elmFiles[i] : i \in 1..Len(elmFiles)}

\* the locals of the finished call are gone
Forget ==
  /\ elmJsonRead' = "none"
  /\ scans' = <<>>
  /\ elmFilesToRead' = <<>>
  /\ result' = <<>>
  /\ error' = [title |-> NULL, paths |-> <<>>]
  /\ hist' = NoHist

ConsumeResult ==
  /\ pc = "done"
  /\ pc' = "idle"
  /\ memory' = IF watch THEN filesWereUpdated(result) ELSE memory
  /\ prev' = [ok |-> TRUE, elmFiles |-> result]
  /\ tasks' = {u \in tasks : ~Finished(u)}
  /\ Forget
  /\ UNCHANGED <<optionVars, diskVars, durable, poolPrepared, passNo,
                 readmeRead, edits, dirty>>

\* the error is reported; without --watch the process exits, and after the
\* last call explored no later call can meet what is left of this one
ConsumeError ==
  /\ pc = "failed"
  /\ pc' = "idle"
  /\ prev' = [ok |-> FALSE, elmFiles |-> <<>>]
  /\ tasks' = IF watch /\ passNo < MaxPasses
              THEN {Leftover(u) : u \in {v \in tasks : ~Finished(v)}}
              ELSE {}
  /\ poolPrepared' = IF watch THEN poolPrepared ELSE FALSE
  /\ Forget
  /\ UNCHANGED <<optionVars, diskVars, memory, durable, passNo,
                 readmeRead, edits, dirty>>

\* ------------------------------------------------ the file system between passes
\* Files change while no call of getProjectFiles is running and another call
\* is still to come.
EnvVars == <<optionVars, memory, durable, poolPrepared, pc, passNo, elmJsonRead,
             readmeRead, scans, elmFilesToRead, tasks, result, error, hist, prev>>

\* a file is rewritten with the same bytes
Touch(f) ==
  /\ pc = "idle" /\ passNo < MaxPasses /\ edits < MaxEdits /\ mtime[f] < MaxMtime
  /\ mtime' = [mtime EXCEPT ![f] = @ + 1]
  /\ edits' = edits + 1
  /\ dirty' = TRUE
  /\ UNCHANGED <<content, unreadable, EnvVars>>

\* a file gets other bytes; bump = FALSE keeps its modification time
Edit(f, c, bump) ==
  /\ pc = "idle" /\ passNo < MaxPasses /\ edits < MaxEdits /\ c # content[f]
  /\ bump => mtime[f] < MaxMtime
  /\ content' = [content EXCEPT ![f] = c]
  /\ mtime' = IF bump THEN [mtime EXCEPT ![f] = @ + 1] ELSE mtime
  /\ edits' = edits + 1
  /\ dirty' = TRUE
  /\ UNCHANGED <<unreadable, EnvVars>>

\* a file loses or regains its read permission
Chmod(f) ==
  /\ pc = "idle" /\ passNo < MaxPasses /\ edits < MaxEdits
  /\ unreadable' = IF f \in unreadable THEN unreadable \ {f} ELSE unreadable \cup {f}
  /\ edits' = edits + 1
  /\ dirty' = TRUE
  /\ UNCHANGED <<content, mtime, EnvVars>>

\* -------------------------------------------------------------------- Next
Next ==
  \/ StartPass
  \/ ReadElmJsonDone
  \/ GetReadmeDone
  \/ \E i \in 1..3 : FindFilesDone(i)
  \/ \E t \in tasks : StatDone(t)
  \/ \E t \in tasks : ReadDone(t)
  \/ \E t \in tasks : FSCacheDone(t)
  \/ \E t \in tasks : ParseDone(t)
  \/ ConsumeResult
  \/ ConsumeError
  \/ \E f \in EditableFiles : Touch(f)
  \/ \E f \in EditableFiles, c \in Contents, bump \in BOOLEAN : Edit(f, c, bump)
  \/ \E f \in ProtectedFiles : Chmod(f)

Spec == Init /\ [][Next]_vars

\* the completion of one outstanding file-system operation, cache lookup or
\* parse request
Completion ==
  \/ ReadElmJsonDone
  \/ GetReadmeDone
  \/ \E i \in 1..3 : FindFilesDone(i)
  \/ \E t \in tasks : StatDone(t)
  \/ \E t \in tasks : ReadDone(t)
  \/ \E t \in tasks : FSCacheDone(t)
  \/ \E t \in tasks : ParseDone(t)

\* while an operation is outstanding, one of them completes
Fairness == WF_vars(Completion)

SpecFair == Spec /\ Fairness

\* ------------------------------------------------------------------ claims
ReadErrorTitle == "UNEXPECTED ERROR WHEN READING THE FILE"

\* the readFile promises of the current call of getProjectFiles
Live == {t \in tasks : t.pass = passNo}

InPass == pc \in {"reading", "done", "failed"}

Range(seq) == {seq[i] : i \in 1..Len(seq)}

ParseRequests == hist.parse["v1"] + hist.parse["v2"] + hist.parse["bad"]

Entry(t) == CHOOSE e \in t.cachedFile : TRUE

\* C1: in watch mode, a pass that follows a completed pass whose records are in
\* the in-memory cache, with no file changed in between, issues no parse
\* request and answers every file from its in-memory entry.
C1_UnchangedSecondPassAllHit ==
  (watch /\ hist.clean /\ InPass) =>
    /\ ParseRequests = 0
    /\ pc # "failed"
    /\ \A t \in Live : t.pc \in {"stat", "done"}
    /\ \A t \in Live : t.pc = "done" => t.verdict \in {"HIT_MTIME", "HIT_CONTENT"}

C1_Witness ==
  /\ watch /\ hist.clean /\ pc = "done"
  /\ Len(result) = 3
  /\ \E i \in 1..Len(result) : result[i].ast = NULL
  /\ \E i \in 1..Len(result) : result[i].ast # NULL

\* C2 as stated: in watch mode, for a path with an in-memory entry, a later
\* mtime with equal bytes dispatches no parse request, and different bytes are
\* never answered with the stored parsed representation, whatever the mtime.
C2_AsStated ==
  (watch /\ InPass) =>
    \A t \in Live :
      (t.cachedFile # {} /\ t.pc # "stat") =>
        /\ (t.observed > Entry(t).lastUpdatedTime /\ content[t.path] = Entry(t).source)
             => (t.pc # "parse" /\ t.verdict # "MISS")
        /\ (content[t.path] # Entry(t).source)
             => t.verdict \notin {"HIT_MTIME", "HIT_CONTENT"}

\* C2 amended: in watch mode, for a path with an in-memory entry: a later mtime
\* with equal bytes dispatches no parse request when the entry holds a parsed
\* representation (its ast is not null); and different bytes are not answered
\* with the stored parsed representation when the mtime is later than the
\* entry's lastUpdatedTime.
C2_MtimeThenContent ==
  (watch /\ InPass) =>
    \A t \in Live :
      (t.cachedFile # {} /\ t.pc # "stat" /\ t.observed > Entry(t).lastUpdatedTime) =>
        /\ (content[t.path] = Entry(t).source /\ Entry(t).ast # NULL)
             => (t.pc \in {"read", "done", "failed"} /\ t.verdict \in {"NONE", "HIT_CONTENT"})
        /\ (content[t.path] # Entry(t).source)
             => /\ t.verdict \notin {"HIT_MTIME", "HIT_CONTENT"}
                /\ t.pc = "done" => t.ast = Parse(content[t.path])

C2_Witness ==
  /\ watch /\ InPass
  /\ \E t \in Live :
       /\ t.cachedFile # {} /\ t.pc = "done"
       /\ t.observed > Entry(t).lastUpdatedTime
       /\ content[t.path] = Entry(t).source
       /\ t.verdict = "HIT_CONTENT"

\* C3: a cold-start pass that starts from an empty durable cache makes exactly
\* one parse request for a parseable content that two of its files share, and
\* gives both files the same parsed representation.
C3_OneParsePerContent ==
  (~watch /\ passNo = 1 /\ pc = "done") =>
    \A i, j \in 1..Len(result) :
      (i # j /\ result[i].source = result[j].source /\ Parse(result[i].source) # NULL) =>
        /\ hist.parse[result[i].source] = 1
        /\ result[i].ast = result[j].ast

\* C4 as stated: a cold-start pass that follows a completed cold-start pass
\* over the same unchanged files, one of them unparseable, makes no parse
\* request and returns the same entries.
C4_AsStated ==
  (~watch /\ hist.clean /\ pc = "done"
     /\ \E i \in 1..Len(result) : Parse(result[i].source) = NULL) =>
    /\ ParseRequests = 0
    /\ result = prev.elmFiles

\* C4 amended: such a second pass makes no parse request for a parseable
\* content, one parse request for every file whose content is unparseable, and
\* returns the same entries as the first pass.
C4_SecondColdPass ==
  (~watch /\ hist.clean /\ pc = "done") =>
    /\ \A c \in Contents :
         hist.parse[c] = IF Parse(c) # NULL THEN 0
                         ELSE Cardinality({i \in 1..Len(result) : result[i].source = c})
    /\ result = prev.elmFiles

C4_Witness ==
  /\ ~watch /\ hist.clean /\ pc = "done"
  /\ Len(result) = 3
  /\ hist.parse["bad"] = 1
  /\ \E i \in 1..Len(result) : result[i].ast # NULL

\* C5: every entry of the durable cache maps the hash of a content to the
\* successful (non-null) parse of that same content.
C5_DurableHoldsOnlySuccesses ==
  \A d \in durable :
    /\ d.ast # NULL
    /\ \E c \in Contents : d.hash = Hash(c) /\ d.ast = Parse(c)

C5_Witness ==
  /\ durable # {}
  /\ \E t \in tasks : t.pc = "done" /\ t.verdict = "MISS" /\ t.ast = NULL

\* C6: a parse failure does not abort the pass: a pass in which every read
\* succeeds returns one record per resolved file, each with the parse of its
\* own source (null only for an unparseable source), and a pass fails with the
\* file-read error only when a file is unreadable.
C6_ParseFailureIsolated ==
  /\ pc = "done" =>
       /\ Len(result) = Len(elmFilesToRead)
       /\ \A i \in 1..Len(result) :
            /\ result[i].path = elmFilesToRead[i]
            /\ result[i].ast = Parse(result[i].source)
            /\ ~watch => result[i].source = content[result[i].path]
  /\ (pc = "failed" /\ error.title = ReadErrorTitle) =>
       /\ error.paths # <<>>
       /\ error.paths[1] \in unreadable

C6_Witness ==
  /\ pc = "done" /\ unreadable = {}
  /\ Len(result) = 3
  /\ Cardinality({i \in 1..Len(result) : result[i].ast = NULL}) = 1
  /\ hist.parse["bad"] = 1

\* C7: with explicit directories, a scan that yields zero files makes the pass
\* fail with one NO FILES FOUND error naming exactly the empty directories,
\* decided after all scans are in; the pass returns no file, reads no source
\* file and does not prepare the worker pool.
C7_EmptyDirectoriesAbort ==
  Len(directoriesToAnalyze) # 0 =>
    /\ (pc = "failed" /\ error.title = "NO FILES FOUND") =>
         /\ \A i \in 1..Len(scans) : scans[i].done
         /\ Range(error.paths) =
              {scans[i].directory : i \in {j \in 1..Len(scans) : scans[j].files = <<>>}}
         /\ Len(error.paths) =
              Cardinality({j \in 1..Len(scans) : scans[j].files = <<>>})
         /\ Len(error.paths) > 0
         /\ result = <<>>
         /\ hist.reads = {}
         /\ hist.prepare = 0
         /\ Live = {}
    /\ (\E i \in 1..Len(scans) : scans[i].done /\ scans[i].files = <<>>) =>
         \/ pc = "scanning" /\ \E i \in 1..Len(scans) : ~scans[i].done
         \/ pc = "failed" /\ error.title = "NO FILES FOUND"

C7_Witness ==
  /\ pc = "failed" /\ error.title = "NO FILES FOUND"
  /\ Len(error.paths) = 2
  /\ \E i \in 1..Len(scans) : scans[i].files # <<>>

\* C8: when the read of a resolved file fails, the pass fails with the
\* file-read error carrying the path of the first file whose read failed and
\* returns no file list; a pass that returns has a record for every resolved
\* path and had no failed read.
C8_ReadFailureAborts ==
  /\ (InPass /\ hist.readFailed # <<>>) =>
       /\ pc = "failed"
       /\ error = [title |-> ReadErrorTitle, paths |-> <<hist.readFailed[1]>>]
       /\ result = <<>>
  /\ pc = "done" =>
       /\ hist.readFailed = <<>>
       /\ Len(result) = Len(elmFilesToRead)
       /\ \A t \in Live : t.verdict # "SKIPPED"

C8_Witness ==
  /\ pc = "failed" /\ error.title = ReadErrorTitle
  /\ \E t \in Live : t.pc = "done"
  /\ \E t \in Live : t.pc \in {"read", "fscache", "parse"}

\* C9: a pass that prepared the worker pool and has ended, by returning or by
\* failing, has terminated the worker pool.
C9_PoolReleasedOnEveryExit ==
  (pc \in {"done", "failed"} /\ hist.prepare > 0) => hist.terminate > 0

\* C10: in a pass whose reads all succeed, prepareWorkers is called once before
\* the first parse request, terminateWorkers once and only when every readFile
\* promise of the pass is settled, and no parse request follows it.
C10_PoolLifecycle ==
  /\ ~hist.parseBad
  /\ ~hist.terminateEarly
  /\ pc \in {"idle", "manifest", "scanning"} =>
       (hist.prepare = 0 /\ hist.terminate = 0 /\ ParseRequests = 0)
  /\ pc = "reading" => (hist.prepare = 1 /\ hist.terminate = 0 /\ poolPrepared)
  /\ pc = "done" =>
       /\ hist.prepare = 1 /\ hist.terminate = 1
       /\ \A t \in Live : t.pc = "done"
  /\ hist.terminate = 1 => pc = "done"
  /\ hist.terminate <= 1

C10_Witness ==
  /\ pc = "done" /\ hist.prepare = 1 /\ hist.terminate = 1
  /\ \E t \in Live : t.verdict = "MISS"
  /\ \E t \in Live : t.verdict \in {"HIT_MTIME", "HIT_CONTENT", "HIT_DURABLE"}

\* every file found by the scans, in the order of sourcesDirectories and, within
\* a directory, of the scan's result
Discovered ==
  LET RECURSIVE upTo(_)
      upTo(k) == IF k = 0 THEN <<>> ELSE upTo(k - 1) \o scans[k].files
  IN upTo(Len(scans))

FirstIndex(seq, x) ==
  CHOOSE i \in 1..Len(seq) : seq[i] = x /\ \A j \in 1..(i - 1) : seq[j] # x

\* C11: the returned elmFiles list the resolved paths in the order of their
\* first discovery by the scans, whatever the order in which the readFile
\* promises were fulfilled, and each record is the one of its own path.
C11_ResolutionOrder ==
  pc = "done" =>
    /\ Len(result) = Len(elmFilesToRead)
    /\ \A i \in 1..Len(result) :
         /\ \E k \in 1..Len(Discovered) : Discovered[k] = result[i].path
         /\ \A t \in Live : t.idx = i => FileRecord(t) = result[i]
    /\ \A i, j \in 1..Len(result) :
         i < j => FirstIndex(Discovered, result[i].path)
                    < FirstIndex(Discovered, result[j].path)

C11_Witness ==
  /\ pc = "done"
  /\ Len(result) = 3
  /\ hist.order = <<3, 1, 2>>

\* C12: a path that two scanned directories both yield is read by one
\* readFile promise and appears once in the returned elmFiles.
C12_NoDuplicatePath ==
  /\ InPass => \A t, u \in Live : t # u => (t.path # u.path /\ t.idx # u.idx)
  /\ pc = "done" =>
       \A i, j \in 1..Len(result) : i # j => result[i].path # result[j].path

C12_Witness ==
  /\ pc = "done"
  /\ Len(result) = 2
  /\ \E i, j \in 1..Len(scans) :
       /\ i # j
       /\ \E f \in Range(scans[i].files) : f \in Range(scans[j].files)

ConfigurationError == elmJsonFile \in {"missing", "malformed"}

\* C13 as stated: a pass over a missing or malformed manifest scans no
\* directory, reads no source file, reads no other file, does not prepare the
\* pool and touches no cache.
C13_AsStated ==
  ConfigurationError =>
    /\ ~hist.scansStarted
    /\ hist.reads = {}
    /\ ~hist.readmeRead
    /\ hist.prepare = 0
    /\ tasks = {} /\ memory = {} /\ durable = {}

\* C13 amended: a pass over a missing or malformed manifest ends with the
\* configuration error and with no directory scan, no source-file read, no
\* pool prepare and no cache access; the README's read, started together with
\* the manifest's, is the one other file read, and it has completed when a
\* malformed manifest is reported.
C13_ManifestErrorAborts ==
  ConfigurationError =>
    /\ pc \in {"idle", "manifest", "failed"}
    /\ ~hist.scansStarted /\ scans = <<>>
    /\ hist.reads = {}
    /\ hist.prepare = 0 /\ ~poolPrepared
    /\ tasks = {} /\ memory = {} /\ durable = {}
    /\ pc # "idle" => hist.readmeRead
    /\ pc = "failed" =>
         /\ result = <<>>
         /\ error.title = IF elmJsonFile = "missing" THEN "ELM.JSON NOT FOUND"
                          ELSE "SyntaxError"
         /\ elmJsonFile = "malformed" => readmeRead = "done"

C13_Witness ==
  /\ pc = "failed"
  /\ error.title = "SyntaxError"
  /\ readmeRead = "done"
  /\ passNo = 2

\* every path given to a scan
ScannedPaths == {RootSrc, RootTests, RootEmpty, RootMissing, RootVendor, FileA, FileC}

\* getFiles of every such path
GetFiles == [d \in ScannedPaths |-> getFiles(d)]

\* C14 as stated: a scanned root that does not exist yields no file and is
\* never the subject of an error, explicit directories included.
C14_AsStated ==
  \A i \in 1..Len(scans) :
    (scans[i].done /\ ~Exists(scans[i].directory)) =>
      /\ scans[i].files = <<>>
      /\ scans[i].directory \notin Range(error.paths)

\* C14 amended: a scanned root that does not exist yields no file; it causes
\* no error when no explicit directories were requested; when it is one of the
\* explicitly requested directories the pass fails with NO FILES FOUND, which
\* names it.
C14_MissingRoot ==
  \A i \in 1..Len(scans) :
    (scans[i].done /\ ~Exists(scans[i].directory)) =>
      /\ scans[i].files = <<>>
      /\ GetFiles[scans[i].directory] = <<>>
      /\ Len(directoriesToAnalyze) = 0 =>
           (error.title # "NO FILES FOUND" /\ scans[i].directory \notin Range(error.paths))
      /\ (Len(directoriesToAnalyze) # 0 /\ pc # "scanning") =>
           /\ pc = "failed" /\ error.title = "NO FILES FOUND"
           /\ scans[i].directory \in Range(error.paths)

C14_Witness ==
  /\ pc = "done"
  /\ Len(directoriesToAnalyze) = 0
  /\ \E i \in 1..Len(scans) : scans[i].directory = RootMissing /\ scans[i].done
  /\ Len(result) = 1

\* the files at or below a directory none of whose segments is an excluded name
Kept ==
  [d \in ScannedPaths |->
     {f \in AllFiles : IsPrefix(d, f) /\ \A k \in 1..Len(f) : f[k] \notin ignore}]

\* C15: a scan keeps exactly the files at or below its directory none of whose
\* path segments equals an excluded name: the file under elm-stuff-backup is
\* kept, the files under elm-stuff and node_modules are dropped.
C15_SegmentExclusion ==
  \A i \in 1..Len(scans) :
    scans[i].done =>
      /\ Range(scans[i].files) = Kept[scans[i].directory]
      /\ IsDirectory(scans[i].directory) =>
           Range(GetFiles[scans[i].directory]) = Range(scans[i].files)
      /\ scans[i].directory = RootVendor => scans[i].files = <<FileY>>

C15_Witness ==
  /\ pc = "done"
  /\ \E i \in 1..Len(scans) : scans[i].directory = RootVendor
  /\ Len(result) = 1 /\ result[1].path = FileY

\* C16: in watch mode a readFile promise that found an in-memory entry whose
\* lastUpdatedTime is not earlier than the observed mtime is fulfilled with
\* that entry, with no content read, no durable-cache lookup and no parse.
C16_MtimeHitReturnsEntry ==
  (watch /\ InPass) =>
    \A t \in Live :
      (t.pc # "stat" /\ t.cachedFile # {} /\ Entry(t).lastUpdatedTime >= t.observed) =>
        /\ t.pc = "done"
        /\ t.verdict = "HIT_MTIME"
        /\ FileRecord(t) = Entry(t)
        /\ t.path \notin hist.reads

C16_Witness ==
  /\ watch /\ pc = "done"
  /\ \E t \in Live : t.verdict = "HIT_MTIME" /\ FileRecord(t) = Entry(t)
  /\ \E t \in Live : t.verdict = "MISS" /\ t.cachedFile # {}

Consistent(record) == record.ast # NULL => record.ast = Parse(record.source)

\* C17: no record pairs a content with the parsed representation of another
\* content: a record's ast is null or the parse of the record's own source, in
\* every fulfilled readFile promise, every returned record and every entry of
\* the in-memory cache.
C17_RecordsConsistent ==
  /\ \A t \in tasks : t.pc = "done" => Consistent(FileRecord(t))
  /\ \A i \in 1..Len(result) : Consistent(result[i])
  /\ \A e \in memory : Consistent(e)

C17_Witness ==
  /\ watch /\ pc = "done"
  /\ \E t \in Live : t.verdict = "HIT_MTIME"
  /\ \E t \in Live :
       /\ t.cachedFile # {} /\ Entry(t).source # t.source
       /\ t.ast # NULL /\ Entry(t).ast # NULL

\* C18: in watch mode no parse request is issued while the worker pool is not
\* prepared, passes that fail with a file-read error included.
C18_NoParseOutsidePool ==
  watch => \A t \in tasks : t.pc = "parse" => t.prepared

\* C19: with no explicit directories the scans are those of the manifest's
\* source directories followed by tests (src and tests for a package), no scan
\* without files makes the pass fail with NO FILES FOUND, and the pass reads
\* the files of the other directories.
C19_ManifestDirectories ==
  (Len(directoriesToAnalyze) = 0 /\ ~ConfigurationError /\ scans # <<>>) =>
    /\ [i \in 1..Len(scans) |-> scans[i].directory] =
         IF elmJsonFile = "package" THEN <<RootSrc, RootTests>>
         ELSE SourceDirectories \o <<RootTests>>
    /\ error.title # "NO FILES FOUND"
    /\ (\A i \in 1..Len(scans) : scans[i].done) =>
         /\ InPass
         /\ Range(elmFilesToRead) = UNION {Range(scans[i].files) : i \in 1..Len(scans)}
    /\ pc = "done" => Len(result) = Len(elmFilesToRead)

C19_Witness ==
  /\ pc = "done"
  /\ elmJsonFile = "application"
  /\ \E i \in 1..Len(scans) : scans[i].directory = RootEmpty /\ scans[i].files = <<>>
  /\ Len(result) = 1 /\ result[1].path = FileC

\* C20: when every outstanding operation completes, a pass that has started
\* ends: it returns one record per resolved path and no error, or it fails
\* with an error and no record.
C20_PassEnds ==
  (pc \in {"manifest", "scanning", "reading"}) ~>
    \/ pc = "done" /\ Len(result) = Len(elmFilesToRead) /\ error.title = NULL
    \/ pc = "failed" /\ result = <<>> /\ error.title # NULL

C20_Witness ==
  /\ watch /\ pc = "done" /\ passNo = 2
  /\ Len(result) = 3
  /\ \A t \in Live : t.verdict \in {"HIT_MTIME", "HIT_CONTENT", "HIT_DURABLE"}
  /\ \E t \in Live : t.verdict = "HIT_DURABLE"

====
